---- MODULE Spec2Model ----
(***************************************************************************)
(* Model of the Llama-2 chat adapters for a text-generation-inference      *)
(* service:                                                                *)
(*   langchain/chat_models/hf_llama2.py                                    *)
(*       HFLlamaFormatter, ClientKwargs, HFChatTGI                         *)
(*   langchain/chat_models/hugginface_text_gen_inference.py                *)
(*       BaseHuggingFaceTextGenChat, Llama2Chat                            *)
(*                                                                         *)
(* Python values are modelled as follows.  A str is a TLA+ string, a list  *)
(* a sequence, a keyword mapping a function from names.  Every other value *)
(* is a record with a "kind" field; None is [kind |-> "None"].  A call     *)
(* that may raise evaluates to [kind |-> "return", value |-> v] or to      *)
(* [kind |-> "raise", exc |-> e, about |-> x].                             *)
(***************************************************************************)
EXTENDS Naturals, Sequences, FiniteSets, TLC

VARIABLES
    \* ---- the formatters (SpecFormat) ----
    dialog,        \* the List[BaseMessage] the caller has built
    join_char,     \* the join string the caller passes / the instance holds
    fmtOut,        \* outcome of HFLlamaFormatter.dialog2string(dialog, join_char)
    preOut,        \* outcome of Llama2Chat(join_char=join_char)._preprocess(dialog)
    \* ---- the adapter HFChatTGI (Spec) ----
    environ,       \* os.environ restricted to TGI_URL
    ctorArgs,      \* keyword arguments of the last HFChatTGI(...) call
    inst,          \* the constructed HFChatTGI instance
    ctorErr,       \* the exception the constructor raised
    args,          \* (messages, stop, kwargs) the caller passes to the calls
    remote,        \* what the remote service answers in this scenario
    wire,          \* requests that reached the remote service, in order
    syncRes,       \* outcome of _generate(**args)
    asyncRes,      \* outcome of await _agenerate(**args)
    gen,           \* the generator object returned by _stream(**args)
    yielded        \* chunks the generator has yielded so far

fmtVars == <<dialog, join_char, fmtOut, preOut>>
tgiVars == <<environ, ctorArgs, inst, ctorErr, args, remote, wire,
             syncRes, asyncRes, gen, yielded>>
vars == <<dialog, join_char, fmtOut, preOut, environ, ctorArgs, inst, ctorErr,
          args, remote, wire, syncRes, asyncRes, gen, yielded>>

(***************************************************************************)
(* Bounds of the model.                                                    *)
(***************************************************************************)
MaxDialog == 3      \* longest dialog given to the formatters
MaxMessages == 1    \* longest message list given to the adapter's calls
MaxFragments == 2   \* most fragments the remote emits on one stream

(***************************************************************************)
(* Python plumbing.                                                        *)
(***************************************************************************)
None == [kind |-> "None"]
Missing == [kind |-> "Missing"]     \* a keyword argument that was not passed

Return(v) == [kind |-> "return", value |-> v]
Raise(e, x) == [kind |-> "raise", exc |-> e, about |-> x]

EmptyMap == [k \in {} |-> None]

\* str.join: the items separated by sep, "" for no item.
RECURSIVE StrJoin(_, _)
StrJoin(sep, items) ==
    IF Len(items) = 0 THEN ""
    ELSE IF Len(items) = 1 THEN items[1]
    ELSE items[1] \o sep \o StrJoin(sep, Tail(items))

\* A list comprehension [f(x) for x in xs] whose elements were evaluated to
\* outs: the first raise, in list order, ends it; otherwise the list of values.
FirstRaise(outs) ==
    LET bad == {i \in 1..Len(outs) : outs[i].kind = "raise"}
    IN  IF bad = {} THEN Return([i \in 1..Len(outs) |-> outs[i].value])
        ELSE outs[CHOOSE i \in bad : \A j \in bad : i <= j]

\* getattr(obj, name) on an object whose attributes are the function attrs.
GetAttr(attrs, name) ==
    IF name \in DOMAIN attrs THEN Return(attrs[name])
    ELSE Raise("AttributeError", name)

(***************************************************************************)
(* langchain.schema.messages: the message classes and isinstance.          *)
(***************************************************************************)
MessageClasses ==
    {"HumanMessage", "AIMessage", "SystemMessage", "ChatMessage", "FunctionMessage"}
Contents == {"a", "b"}
Messages == [class : MessageClasses, content : Contents]

IsInstance(message, class) == message.class = class

(***************************************************************************)
(* HFLlamaFormatter                                                        *)
(***************************************************************************)
B_INST == "[INST]"
E_INST == "[/INST]"
B_SYS == "<<SYS>>\n"
E_SYS == "\n<</SYS>>\n\n"
HF_BOS_TOKEN == "<s>"
HF_EOS_TOKEN == "</s>"

message2string_NoSysEos(message) ==
    IF IsInstance(message, "HumanMessage")
    THEN Return(HF_BOS_TOKEN \o B_INST \o message.content \o E_INST)
    ELSE IF IsInstance(message, "AIMessage")
    THEN Return(message.content \o HF_EOS_TOKEN)
    ELSE IF IsInstance(message, "SystemMessage")
    THEN Return(HF_BOS_TOKEN \o B_SYS \o message.content \o E_SYS)
    ELSE Raise("ValueError", message.class)

message2string_Fallback(message) ==
    IF IsInstance(message, "HumanMessage")
    THEN Return(HF_BOS_TOKEN \o B_INST \o message.content \o E_INST)
    ELSE IF IsInstance(message, "AIMessage")
    THEN Return(message.content \o HF_EOS_TOKEN)
    ELSE IF IsInstance(message, "SystemMessage")
    THEN Return(HF_BOS_TOKEN \o B_SYS \o message.content \o E_SYS \o HF_EOS_TOKEN)
    ELSE Return(message.content)

message2string(message) ==
    IF IsInstance(message, "HumanMessage")
    THEN Return(HF_BOS_TOKEN \o B_INST \o message.content \o E_INST)
    ELSE IF IsInstance(message, "AIMessage")
    THEN Return(message.content \o HF_EOS_TOKEN)
    ELSE IF IsInstance(message, "SystemMessage")
    THEN Return(HF_BOS_TOKEN \o B_SYS \o message.content \o E_SYS \o HF_EOS_TOKEN)
    ELSE Raise("ValueError", message.class)

dialog2string(dlg, join) ==
    LET strings == FirstRaise([i \in 1..Len(dlg) |-> message2string(dlg[i])])
    IN  IF strings.kind = "raise" THEN strings
        ELSE Return(StrJoin(join, strings.value))

(***************************************************************************)
(* Llama2Chat: the attributes the class body declares, and its formatter.  *)
(***************************************************************************)
Llama2Chat(join) ==
    [B_INST |-> "[INST]",
     E_INST |-> "[/INST]",
     B_SYS |-> "<<SYS>>\n",
     E_SYS |-> "\n<</SYS>>\n\n",
     HF_BOS_TOKE |-> "<s>",
     HF_EOS_TOKEN |-> "</s>",
     join_char |-> join]

\* An f-string over attribute lookups and literal values: the lookups are
\* evaluated left to right, the first that raises ends it.
FString(parts) ==
    LET vals == FirstRaise(parts)
    IN  IF vals.kind = "raise" THEN vals ELSE Return(StrJoin("", vals.value))

Llama2Chat_message2string(self, message) ==
    IF IsInstance(message, "HumanMessage")
    THEN FString(<<GetAttr(self, "HF_BOS_TOKEN"), GetAttr(self, "B_INST"),
                   Return(message.content), GetAttr(self, "E_INST")>>)
    ELSE IF IsInstance(message, "AIMessage")
    THEN FString(<<Return(message.content), GetAttr(self, "HF_EOS_TOKEN")>>)
    ELSE IF IsInstance(message, "SystemMessage")
    THEN FString(<<GetAttr(self, "HF_BOS_TOKEN"), GetAttr(self, "B_SYS"),
                   Return(message.content), GetAttr(self, "E_SYS"),
                   GetAttr(self, "HF_EOS_TOKEN")>>)
    ELSE Raise("ValueError", message.class)

Llama2Chat_preprocess(self, messages) ==
    LET strings == FirstRaise([i \in 1..Len(messages) |->
                                  Llama2Chat_message2string(self, messages[i])])
    IN  IF strings.kind = "raise" THEN strings
        ELSE Return(StrJoin(self.join_char, strings.value))

(***************************************************************************)
(* The formatters' callers: a dialog is built message by message, then     *)
(* each formatter is called on it.                                         *)
(***************************************************************************)
JoinChars == {"\n", " "}
DefaultJoinChar == "\n"

AppendMessage(m) ==
    /\ fmtOut = None /\ preOut = None
    /\ Len(dialog) < MaxDialog
    /\ dialog' = Append(dialog, m)
    /\ UNCHANGED <<join_char, fmtOut, preOut>>
    /\ UNCHANGED tgiVars

CallDialog2string ==
    /\ fmtOut = None
    /\ fmtOut' = dialog2string(dialog, join_char)
    /\ UNCHANGED <<dialog, join_char, preOut>>
    /\ UNCHANGED tgiVars

CallPreprocess ==
    /\ preOut = None
    /\ preOut' = Llama2Chat_preprocess(Llama2Chat(join_char), dialog)
    /\ UNCHANGED <<dialog, join_char, fmtOut>>
    /\ UNCHANGED tgiVars

NewDialog(j) ==
    /\ fmtOut # None \/ preOut # None
    /\ dialog' = <<>>
    /\ join_char' = j
    /\ fmtOut' = None
    /\ preOut' = None
    /\ UNCHANGED tgiVars

(***************************************************************************)
(* The process environment, the caller's values and the remote service.    *)
(***************************************************************************)
Str(s) == [kind |-> "str", value |-> s]
Dict(items) == [kind |-> "dict", items |-> items]

EnvURL == "http://env:8080"
ExplicitURL == "http://explicit:8080"
ReadyURL == "http://ready:8080"

Environs == {EmptyMap, [TGI_URL |-> EnvURL]}

\* os.getenv(name, default)
os_getenv(env, name, default) ==
    IF name \in DOMAIN env THEN Str(env[name]) ELSE default

\* dict.get(key): None for a key the dict does not hold.
DictGet(d, key) == IF key \in DOMAIN d THEN d[key] ELSE None

(***************************************************************************)
(* text_generation.AsyncClient, as far as the adapter uses it.             *)
(***************************************************************************)
DefaultTimeout == 10

\* AsyncClient(base_url, headers=None, cookies=None, timeout=10).  The
\* library's generate_stream is an async generator function; a client the
\* caller passes in may be a subclass whose generate_stream is a coroutine
\* function returning the list of fragments.
AsyncClient(base_url, headers, cookies, timeout, stream_api) ==
    [kind |-> "AsyncClient", base_url |-> base_url, headers |-> headers,
     cookies |-> cookies, timeout |-> timeout, generate_stream |-> stream_api]

Request(by, client, prompt, kwargs) ==
    [by |-> by, url |-> client.base_url, timeout |-> client.timeout,
     prompt |-> prompt, parameters |-> kwargs]

\* tgi_client.generate(prompt=prompt, **kwargs): a coroutine which, once
\* run, sends one request and returns the Response or raises.
AsyncClient_generate(by, client, prompt, kwargs, rem) ==
    [kind |-> "coroutine",
     result |-> [sent |-> <<Request(by, client, prompt, kwargs)>>,
                 outcome |-> rem.generate]]

\* tgi_client.generate_stream(prompt=prompt, **kwargs)
AsyncClient_generate_stream(by, client, prompt, kwargs, rem) ==
    IF client.generate_stream = "async_generator"
    THEN [kind |-> "async_generator"]
    ELSE [kind |-> "coroutine",
          result |-> [sent |-> <<Request(by, client, prompt, kwargs)>>,
                      outcome |-> Return(rem.stream)]]

\* asyncio.run(main): runs a coroutine to completion; anything else is refused.
asyncio_run(main) ==
    IF main.kind = "coroutine" THEN main.result
    ELSE [sent |-> <<>>, outcome |-> Raise("ValueError", "a coroutine was expected")]

\* await coroutine
Await(coroutine) == coroutine.result

(***************************************************************************)
(* ClientKwargs                                                            *)
(***************************************************************************)
\* ClientKwargs(**items): base_url is required, the other fields default.
ClientKwargs(items) ==
    IF "base_url" \notin DOMAIN items
    THEN Raise("ValidationError", <<"base_url">>)
    ELSE Return([kind |-> "ClientKwargs",
                 base_url |-> items["base_url"],
                 headers |-> DictGet(items, "headers"),
                 cookies |-> DictGet(items, "cookies"),
                 timeout |-> IF "timeout" \in DOMAIN items
                             THEN items["timeout"] ELSE DefaultTimeout])

\* AsyncClient(**client_kwargs.dict())
AsyncClientFromKwargs(ck) ==
    AsyncClient(ck.base_url, ck.headers, ck.cookies, ck.timeout, "async_generator")

(***************************************************************************)
(* HFChatTGI: construction.                                                *)
(***************************************************************************)
HFChatTGI_get_client(env) ==
    LET text_generation_service_url == os_getenv(env, "TGI_URL", None)
    IN  IF text_generation_service_url = None
        THEN Raise("ValueError", "No TGI_URL environment variable found")
        ELSE Return(AsyncClient(text_generation_service_url.value, None, None,
                                DefaultTimeout, "async_generator"))

\* values holds the fields validated before tgi_client, by field name.
validate_client(tgi_client, values, env) ==
    LET first ==
            IF tgi_client = None /\ DictGet(values, "tgi_client_parameters") # None
            THEN AsyncClientFromKwargs(values["tgi_client_parameters"])
            ELSE tgi_client
    IN  IF first = None /\ DictGet(values, "tgi_client_parameters") = None
        THEN HFChatTGI_get_client(env)
        ELSE Return(first)

\* Field defaults of the class body.
FieldOrDefault(kw, name, default) == IF kw[name] = Missing THEN default ELSE kw[name]

\* HFChatTGI(**kw) with client_kwargs declared Optional[ClientKwargs] = None.
HFChatTGI_init_OptionalKwargs(kw, env) ==
    LET ck == IF kw.client_kwargs = Missing THEN Return(None)
              ELSE ClientKwargs(kw.client_kwargs.items)
        values == IF ck.kind = "return" THEN [client_kwargs |-> ck.value] ELSE EmptyMap
        tc == IF kw.tgi_client = Missing THEN Raise("MissingError", "tgi_client")
              ELSE IF kw.tgi_client = None
              THEN Raise("NoneIsNotAllowedError", "tgi_client")
              ELSE validate_client(kw.tgi_client, values, env)
        errors == SelectSeq(<<"client_kwargs", "tgi_client">>,
                            LAMBDA f : (f = "client_kwargs" /\ ck.kind = "raise")
                                       \/ (f = "tgi_client" /\ tc.kind = "raise"))
    IN  IF errors # <<>> THEN Raise("ValidationError", errors)
        ELSE Return([kind |-> "HFChatTGI",
                     client_kwargs |-> ck.value,
                     tgi_client |-> tc.value,
                     content_formatter |-> FieldOrDefault(kw, "content_formatter", None),
                     model_kwargs |-> FieldOrDefault(kw, "model_kwargs", None)])

\* HFChatTGI(**kw): the fields are validated in declaration order.  A field
\* declared without a default is required: when it is not passed, or passed
\* as None, that is a validation error and its validator is not run.  The
\* errors of all fields are raised together as one ValidationError.
HFChatTGI_init(kw, env) ==
    LET ck == IF kw.client_kwargs = Missing THEN Raise("MissingError", "client_kwargs")
              ELSE ClientKwargs(kw.client_kwargs.items)
        values == IF ck.kind = "return" THEN [client_kwargs |-> ck.value] ELSE EmptyMap
        tc == IF kw.tgi_client = Missing THEN Raise("MissingError", "tgi_client")
              ELSE IF kw.tgi_client = None
              THEN Raise("NoneIsNotAllowedError", "tgi_client")
              ELSE validate_client(kw.tgi_client, values, env)
        errors == SelectSeq(<<"client_kwargs", "tgi_client">>,
                            LAMBDA f : (f = "client_kwargs" /\ ck.kind = "raise")
                                       \/ (f = "tgi_client" /\ tc.kind = "raise"))
    IN  IF errors # <<>> THEN Raise("ValidationError", errors)
        ELSE Return([kind |-> "HFChatTGI",
                     client_kwargs |-> ck.value,
                     tgi_client |-> tc.value,
                     content_formatter |-> FieldOrDefault(kw, "content_formatter", None),
                     model_kwargs |-> FieldOrDefault(kw, "model_kwargs", None)])

(***************************************************************************)
(* HFChatTGI: the calls.                                                   *)
(***************************************************************************)
\* What can be passed as content_formatter (the field is typed Any): nothing
\* (the default None), the HFLlamaFormatter class of this module, or an
\* object that provides _format_request_payload.
ContentFormatters ==
    {None, [kind |-> "HFLlamaFormatter"], [kind |-> "ContentFormatter"]}

\* The attributes of each, by name.
FormatterAttrs(formatter) ==
    IF formatter = None THEN EmptyMap
    ELSE IF formatter.kind = "HFLlamaFormatter"
    THEN [n \in {"B_INST", "E_INST", "B_SYS", "E_SYS", "HF_BOS_TOKEN",
                 "HF_EOS_TOKEN", "message2string", "dialog2string"} |-> n]
    ELSE [n \in {"_format_request_payload"} |-> n]

\* self.content_formatter._format_request_payload(messages, _model_kwargs).
\* The prompt a provider builds is a function of both arguments.
format_request_payload(formatter, messages, model_kwargs) ==
    LET method == GetAttr(FormatterAttrs(formatter), "_format_request_payload")
    IN  IF method.kind = "raise" THEN method
        ELSE Return([kind |-> "prompt", messages |-> messages,
                     model_kwargs |-> model_kwargs])

\* self.model_kwargs or {}
ModelKwargsOrEmpty(self) ==
    IF self.model_kwargs = None THEN EmptyMap ELSE self.model_kwargs.items

\* The names HFChatTGI defines; its base classes define none of the others
\* used below.
HFChatTGI_attrs ==
    [n \in {"client_kwargs", "tgi_client", "content_formatter", "model_kwargs",
            "validate_client", "_get_client", "_identifying_params", "_llm_type",
            "_call_base", "_call", "_generate", "_create_chat_result",
            "_agenerate", "_stream", "_astream"} |-> n]

\* A call's effect: the requests it sent and how it ended.
Effect(sent, outcome) == [sent |-> sent, outcome |-> outcome]

\* _call_base that tries the request a second time when it fails.
HFChatTGI_call_base_Retry(self, messages, stop, kwargs, rem) ==
    LET prompt == format_request_payload(self.content_formatter, messages,
                                         ModelKwargsOrEmpty(self))
        first == asyncio_run(AsyncClient_generate("_generate", self.tgi_client,
                                                  prompt.value, kwargs, rem))
    IN  IF prompt.kind = "raise" THEN Effect(<<>>, prompt)
        ELSE IF first.outcome.kind = "raise"
        THEN Effect(first.sent \o first.sent, first.outcome)
        ELSE first

HFChatTGI_call_base(self, messages, stop, kwargs, rem) ==
    LET prompt == format_request_payload(self.content_formatter, messages,
                                         ModelKwargsOrEmpty(self))
    IN  IF prompt.kind = "raise" THEN Effect(<<>>, prompt)
        ELSE asyncio_run(AsyncClient_generate("_generate", self.tgi_client,
                                              prompt.value, kwargs, rem))

\* details.dict(): the mapping of the Details object's fields.
DetailsDict(details) ==
    Dict([finish_reason |-> details.finish_reason,
          generated_tokens |-> details.generated_tokens])

HFChatTGI_create_chat_result(response) ==
    [kind |-> "ChatResult",
     generations |-> <<[kind |-> "ChatGeneration",
                        message |-> [class |-> "AIMessage",
                                     content |-> response.generated_text],
                        generation_info |-> DetailsDict(response.details)]>>]

HFChatTGI_generate(self, messages, stop, kwargs, rem) ==
    LET response == HFChatTGI_call_base(self, messages, stop, kwargs, rem)
    IN  IF response.outcome.kind = "raise" THEN response
        ELSE Effect(response.sent,
                    Return(HFChatTGI_create_chat_result(response.outcome.value)))

\* _agenerate that formats the prompt without the model's keyword arguments.
HFChatTGI_agenerate_NoModelKwargs(self, messages, stop, kwargs, rem) ==
    LET prompt == format_request_payload(self.content_formatter, messages, EmptyMap)
        response == Await(AsyncClient_generate("_agenerate", self.tgi_client,
                                               prompt.value, kwargs, rem))
    IN  IF prompt.kind = "raise" THEN Effect(<<>>, prompt)
        ELSE IF response.outcome.kind = "raise" THEN response
        ELSE Effect(response.sent,
                    Return(HFChatTGI_create_chat_result(response.outcome.value)))

HFChatTGI_agenerate(self, messages, stop, kwargs, rem) ==
    LET prompt == format_request_payload(self.content_formatter, messages,
                                         ModelKwargsOrEmpty(self))
        response == Await(AsyncClient_generate("_agenerate", self.tgi_client,
                                               prompt.value, kwargs, rem))
    IN  IF prompt.kind = "raise" THEN Effect(<<>>, prompt)
        ELSE IF response.outcome.kind = "raise" THEN response
        ELSE Effect(response.sent,
                    Return(HFChatTGI_create_chat_result(response.outcome.value)))

\* _stream(...) is a generator function: calling it runs none of its body.
Generator(state, position, response, outcome) ==
    [kind |-> "generator", state |-> state, position |-> position,
     response |-> response, outcome |-> outcome]

HFChatTGI_stream(self, messages, stop, kwargs) ==
    Generator("created", 0, <<>>, None)

\* The loop of _stream from the chunk after position: past the last chunk the
\* generator returns; otherwise the chunk is wrapped and yielded.
StreamLoop(g, response, sent) ==
    IF g.position = Len(response)
    THEN [gen |-> Generator("closed", g.position, response, Return(None)),
          yield |-> <<>>, sent |-> sent]
    ELSE LET wrap == GetAttr(HFChatTGI_attrs, "_create_chat_generation_chunk")
         IN  IF wrap.kind = "raise"
             THEN [gen |-> Generator("closed", g.position, response, wrap),
                   yield |-> <<>>, sent |-> sent]
             ELSE [gen |-> Generator("suspended", g.position + 1, response, None),
                   yield |-> <<[kind |-> "ChatGenerationChunk",
                                chunk |-> response[g.position + 1]]>>,
                   sent |-> sent]

\* next(generator): the body runs from where it stands to its next yield, its
\* return or the exception that ends it.
HFChatTGI_stream_next(self, g, messages, stop, kwargs, rem) ==
    IF g.state = "suspended" THEN StreamLoop(g, g.response, <<>>)
    ELSE LET prompt == format_request_payload(self.content_formatter, messages,
                                              ModelKwargsOrEmpty(self))
             response == asyncio_run(AsyncClient_generate_stream(
                             "_stream", self.tgi_client, prompt.value, kwargs, rem))
         IN  IF prompt.kind = "raise"
             THEN [gen |-> Generator("closed", 0, <<>>, prompt),
                   yield |-> <<>>, sent |-> <<>>]
             ELSE IF response.outcome.kind = "raise"
             THEN [gen |-> Generator("closed", 0, <<>>, response.outcome),
                   yield |-> <<>>, sent |-> response.sent]
             ELSE StreamLoop(g, response.outcome.value, response.sent)

(***************************************************************************)
(* The adapter's caller and the remote service.                            *)
(***************************************************************************)
List(items) == [kind |-> "list", items |-> items]

SeqsUpTo(S, n) == UNION {[1..k -> S] : k \in 0..n}

\* Keyword arguments a caller may give the constructor.
CtorKwargs ==
    [client_kwargs : {Missing, Dict([timeout |-> 5]),
                      Dict([base_url |-> ExplicitURL, timeout |-> 5])},
     tgi_client : {Missing, None,
                   AsyncClient(ReadyURL, None, None, DefaultTimeout, "async_generator"),
                   AsyncClient(ReadyURL, None, None, DefaultTimeout, "coroutine")},
     content_formatter : {Missing, [kind |-> "HFLlamaFormatter"],
                          [kind |-> "ContentFormatter"]},
     model_kwargs : {Missing, Dict([temperature |-> 1])}]

\* Arguments a caller may give _generate, _agenerate and _stream.
CallArgs ==
    [messages : SeqsUpTo({[class |-> "HumanMessage", content |-> "a"]}, MaxMessages),
     stop : {None, List(<<"</s>">>)},
     kwargs : {EmptyMap, [max_new_tokens |-> 20]}]

Details(finish_reason, generated_tokens) ==
    [kind |-> "Details", finish_reason |-> finish_reason,
     generated_tokens |-> generated_tokens]
Response(generated_text, details) ==
    [kind |-> "Response", generated_text |-> generated_text, details |-> details]

\* What the remote service does in one scenario: its answer to generate (a
\* response, a transport failure, or a body the client cannot parse) and the
\* fragments it emits on a stream before it signals completion.
Remotes ==
    [generate : {Return(Response("Hello", Details("eos_token", 2))),
                 Return(Response("lo", Details("length", 1))),
                 Raise("ClientError", "transport"),
                 Raise("ValidationError", "malformed response")},
     stream : SeqsUpTo({"Hel", "lo"}, MaxFragments)]

Construct(kw) ==
    /\ ctorArgs = None
    /\ LET made == HFChatTGI_init(kw, environ)
       IN  /\ inst' = IF made.kind = "return" THEN made.value ELSE None
           /\ ctorErr' = IF made.kind = "raise" THEN made ELSE None
    /\ ctorArgs' = kw
    /\ UNCHANGED <<environ, args, remote, wire, syncRes, asyncRes, gen, yielded>>
    /\ UNCHANGED fmtVars

Prepare(a, rem) ==
    /\ inst # None
    /\ args = None
    /\ args' = a
    /\ remote' = rem
    /\ UNCHANGED <<environ, ctorArgs, inst, ctorErr, wire, syncRes, asyncRes,
                   gen, yielded>>
    /\ UNCHANGED fmtVars

Generate ==
    /\ args # None
    /\ syncRes = None
    /\ LET e == HFChatTGI_generate(inst, args.messages, args.stop, args.kwargs, remote)
       IN  /\ syncRes' = e.outcome
           /\ wire' = wire \o e.sent
    /\ UNCHANGED <<environ, ctorArgs, inst, ctorErr, args, remote, asyncRes,
                   gen, yielded>>
    /\ UNCHANGED fmtVars

AGenerate ==
    /\ args # None
    /\ asyncRes = None
    /\ LET e == HFChatTGI_agenerate(inst, args.messages, args.stop, args.kwargs, remote)
       IN  /\ asyncRes' = e.outcome
           /\ wire' = wire \o e.sent
    /\ UNCHANGED <<environ, ctorArgs, inst, ctorErr, args, remote, syncRes,
                   gen, yielded>>
    /\ UNCHANGED fmtVars

CallStream ==
    /\ args # None
    /\ gen = None
    /\ gen' = HFChatTGI_stream(inst, args.messages, args.stop, args.kwargs)
    /\ UNCHANGED <<environ, ctorArgs, inst, ctorErr, args, remote, wire,
                   syncRes, asyncRes, yielded>>
    /\ UNCHANGED fmtVars

StreamNext ==
    /\ gen # None
    /\ gen.state # "closed"
    /\ LET step == HFChatTGI_stream_next(inst, gen, args.messages, args.stop,
                                         args.kwargs, remote)
       IN  /\ gen' = step.gen
           /\ yielded' = yielded \o step.yield
           /\ wire' = wire \o step.sent
    /\ UNCHANGED <<environ, ctorArgs, inst, ctorErr, args, remote, syncRes, asyncRes>>
    /\ UNCHANGED fmtVars

TearDown(env) ==
    /\ ctorArgs # None
    /\ environ' = env
    /\ ctorArgs' = None /\ inst' = None /\ ctorErr' = None
    /\ args' = None /\ remote' = None /\ wire' = <<>>
    /\ syncRes' = None /\ asyncRes' = None /\ gen' = None /\ yielded' = <<>>
    /\ UNCHANGED fmtVars

(***************************************************************************)
(* Specifications.                                                         *)
(***************************************************************************)
\* Nothing constructed, nothing called yet.
Untouched ==
    /\ dialog = <<>>
    /\ fmtOut = None
    /\ preOut = None
    /\ ctorArgs = None /\ inst = None /\ ctorErr = None
    /\ args = None /\ remote = None /\ wire = <<>>
    /\ syncRes = None /\ asyncRes = None /\ gen = None /\ yielded = <<>>

\* The adapter, in any environment.
Init ==
    /\ Untouched
    /\ join_char = DefaultJoinChar
    /\ environ \in Environs

Next ==
    \/ \E kw \in CtorKwargs : Construct(kw)
    \/ \E a \in CallArgs, rem \in Remotes : Prepare(a, rem)
    \/ Generate
    \/ AGenerate
    \/ CallStream
    \/ StreamNext
    \/ \E env \in Environs : TearDown(env)

Spec == Init /\ [][Next]_vars

\* The formatters, with any join string.
InitFormat ==
    /\ Untouched
    /\ join_char \in JoinChars
    /\ environ = EmptyMap

NextFormat ==
    \/ \E m \in Messages : AppendMessage(m)
    \/ CallDialog2string
    \/ CallPreprocess
    \/ \E j \in JoinChars : NewDialog(j)

SpecFormat == InitFormat /\ [][NextFormat]_vars

(***************************************************************************)
(* Properties of the formatters (SpecFormat).                              *)
(***************************************************************************)
SupportedClasses == {"SystemMessage", "HumanMessage", "AIMessage"}
Supported(m) == m.class \in SupportedClasses

\* The template table: one template per variant.
Template(m) ==
    CASE m.class = "SystemMessage" ->
            HF_BOS_TOKEN \o B_SYS \o m.content \o E_SYS \o HF_EOS_TOKEN
      [] m.class = "HumanMessage" ->
            HF_BOS_TOKEN \o B_INST \o m.content \o E_INST
      [] m.class = "AIMessage" ->
            m.content \o HF_EOS_TOKEN

\* The templates of the first k messages, in order, separated by join.
RECURSIVE JoinedTemplates(_, _, _)
JoinedTemplates(dlg, join, k) ==
    IF k = 0 THEN ""
    ELSE IF k = 1 THEN Template(dlg[1])
    ELSE JoinedTemplates(dlg, join, k - 1) \o join \o Template(dlg[k])

\* C1: on a dialog of System/Human/Assistant messages (the empty dialog,
\* repeated and adjacent same-variant messages included) and any join
\* string, dialog2string returns exactly the messages' templates, one per
\* message and in input order, separated by the join string; the empty
\* dialog gives the empty string.
C1_Dialog2stringJoinsTemplates ==
    (fmtOut # None /\ \A i \in 1..Len(dialog) : Supported(dialog[i]))
        => /\ fmtOut = Return(JoinedTemplates(dialog, join_char, Len(dialog)))
           /\ (dialog = <<>> => fmtOut = Return(""))

C1_Witness ==
    /\ fmtOut # None
    /\ Len(dialog) = 3
    /\ dialog[1].class = "SystemMessage"
    /\ dialog[2].class = "HumanMessage"
    /\ dialog[3] = dialog[2]
    /\ join_char # DefaultJoinChar
    /\ fmtOut.kind = "return"

\* C2: a dialog holding a message that is not System, Human or Assistant,
\* at any position, makes dialog2string raise the unsupported-type error
\* naming that message's class; no prompt string is returned.
C2_UnsupportedMessageRaises ==
    LET bad == {i \in 1..Len(dialog) : ~Supported(dialog[i])}
    IN  (fmtOut # None /\ bad # {})
            => /\ fmtOut.kind = "raise"
               /\ fmtOut.exc = "ValueError"
               /\ fmtOut.about = dialog[CHOOSE i \in bad : \A j \in bad : i <= j].class

C2_Witness ==
    /\ fmtOut # None
    /\ Len(dialog) = 3
    /\ Supported(dialog[1])
    /\ ~Supported(dialog[2])
    /\ Supported(dialog[3])
    /\ fmtOut.kind = "raise"

\* C10: with the default join string, Llama2Chat._preprocess and
\* HFLlamaFormatter.dialog2string end alike on every dialog: the same
\* string, or both raise the unsupported-type error.
C10_FormattersAgree ==
    (fmtOut # None /\ preOut # None /\ join_char = DefaultJoinChar)
        => fmtOut = preOut

(***************************************************************************)
(* Properties of the adapter (Spec).                                       *)
(***************************************************************************)
Constructed == ctorArgs # None

\* The constructor was given a client_kwargs that holds a base URL.
ExplicitBaseUrl ==
    /\ ctorArgs.client_kwargs # Missing
    /\ "base_url" \in DOMAIN ctorArgs.client_kwargs.items

EnvSet == "TGI_URL" \in DOMAIN environ

\* The requests one of the calls sent.
SentBy(op) == SelectSeq(wire, LAMBDA r : r.by = op)

\* A request without the name of the call that sent it.
OnWire(r) == [url |-> r.url, timeout |-> r.timeout, prompt |-> r.prompt,
              parameters |-> r.parameters]
OnWireAll(rs) == [i \in 1..Len(rs) |-> OnWire(rs[i])]

\* The prompt of the scenario's messages could be formatted.
PromptFormatted ==
    format_request_payload(inst.content_formatter, args.messages,
                           ModelKwargsOrEmpty(inst)).kind = "return"

\* C3: constructing HFChatTGI with no explicit base URL while TGI_URL is
\* unset fails at construction: the constructor raises and no instance (and
\* so no client handle) exists afterwards.
C3_NoUrlNoEnvFails ==
    (Constructed /\ ~ExplicitBaseUrl /\ ~EnvSet)
        => /\ ctorErr # None
           /\ ctorErr.kind = "raise"
           /\ inst = None

C3_Witness ==
    /\ Constructed
    /\ ctorArgs.client_kwargs = Missing
    /\ ctorArgs.tgi_client = Missing
    /\ ~EnvSet
    /\ ctorErr # None
    /\ inst = None

\* C4: constructing HFChatTGI with neither client_kwargs nor tgi_client
\* while TGI_URL is set succeeds, and every request issued through the
\* instance goes to the URL of TGI_URL.
C4_EnvOnlyConstructs ==
    (Constructed /\ ctorArgs.client_kwargs = Missing
                 /\ ctorArgs.tgi_client = Missing /\ EnvSet)
        => /\ inst # None
           /\ inst.tgi_client.base_url = environ["TGI_URL"]
           /\ \A i \in 1..Len(wire) : wire[i].url = environ["TGI_URL"]

\* C5: on the same messages, parameters and remote answer, _generate and the
\* awaited _agenerate send the same prompt and parameters and end alike:
\* the same result (text and details), or the same failure.
C5_GenerateEqualsAGenerate ==
    (syncRes # None /\ asyncRes # None)
        => /\ OnWireAll(SentBy("_generate")) = OnWireAll(SentBy("_agenerate"))
           /\ syncRes = asyncRes

C5_Witness ==
    /\ syncRes # None /\ asyncRes # None
    /\ syncRes.kind = "return"
    /\ inst.model_kwargs # None
    /\ args.messages # <<>>
    /\ Len(SentBy("_generate")) = 1 /\ Len(SentBy("_agenerate")) = 1

\* C6: when the remote emits the fragments f1..fn and then signals
\* completion, the stream yields exactly n chunks carrying f1..fn in order
\* and then ends normally.
C6_StreamYieldsFragments ==
    (gen # None /\ gen.state = "closed" /\ PromptFormatted)
        => /\ gen.outcome = Return(None)
           /\ Len(yielded) = Len(remote.stream)
           /\ \A i \in 1..Len(yielded) : yielded[i].chunk = remote.stream[i]

\* C7: a _generate or _agenerate call whose prompt was formatted sends
\* exactly one request (none when formatting raised); when that request
\* fails the call raises that very failure to its caller: no second request
\* is sent and no normal result is returned.
C7_For(op, res) ==
    res # None
        => /\ Len(SentBy(op)) = IF PromptFormatted THEN 1 ELSE 0
           /\ (PromptFormatted /\ remote.generate.kind = "raise")
                  => res = remote.generate
           /\ (~PromptFormatted) => res.kind = "raise"

C8_StopAndParametersForwarded ==
    \A i \in 1..Len(wire) :
        /\ \A k \in DOMAIN args.kwargs :
               k \in DOMAIN wire[i].parameters
               /\ wire[i].parameters[k] = args.kwargs[k]
        /\ args.stop # None
               => \E k \in {"stop", "stop_sequences"} \cap DOMAIN wire[i].parameters :
                      wire[i].parameters[k] = args.stop.items

\* C9: when client_kwargs with a base URL is passed and no ready-made client,
\* the instance's client is built from client_kwargs (base URL, headers,
\* cookies, timeout), whatever TGI_URL holds.
C9_ExplicitConfigurationWins ==
    (Constructed /\ ExplicitBaseUrl /\ ctorArgs.tgi_client \in {Missing, None})
        => /\ inst # None
           /\ inst.tgi_client =
                  AsyncClientFromKwargs(ClientKwargs(ctorArgs.client_kwargs.items).value)

====
